---- MODULE Spec2Model ----
(***************************************************************************)
(* State-machine model of build.py: the configuration reader ConfigRead    *)
(* (lex, split, parse, preparse, run and the command handlers), the Result *)
(* type and printf.                                                        *)
(*                                                                         *)
(* Strings that the code indexes character by character (the configuration *)
(* text) are sequences of one-character strings; Python's 0-based          *)
(* positions are kept in `pos`, so tokens[pos] of the code is              *)
(* tokens[pos + 1] here and tokens[pos-1] of the code is tokens[pos].      *)
(***************************************************************************)
EXTENDS Integers, Sequences, FiniteSets, TLC

VARIABLES
    data,       \* parse/lex: the configuration text, a sequence of characters
    tokens,     \* lex: the token list built so far; split: its input
    pos,        \* the 0-based index of the character / token scanned next
    out,        \* split: the statements, each <<flags, values>>
    write_to,   \* split: the current group index, 0 or 1
    dash,       \* split: a lone DASH is pending
    skipped,    \* split: the escape flag
    put,        \* split: append the previously scanned token at the next one
    placed,     \* history: <<token position, statement, group>> of each append
    scanned,    \* history: <<statement, write_to, dash, skipped>> when each
                \* token was scanned
    queue,      \* ConfigRead.queue
    command_pointer, \* run: the loop index x
    fs,         \* the directories that exist, the filesystem calls made, and
                \* the paths on which the calls of the last handler raise
    calls,      \* history: the queue indices whose handler was invoked
    failed,     \* history: the queue indices whose handler met a failure
    stdout,     \* what print wrote
    log,        \* what printf wrote to the global log
    debug,      \* definitions["debug"]
    verbose,    \* definitions["verbose"]
    proc,       \* how the process stands: running, returned, raised, exited
    pc          \* the stage the interpreter is in

vars == <<data, tokens, pos, out, write_to, dash, skipped, put, placed,
          scanned, queue, command_pointer, fs, calls, failed, stdout, log,
          debug, verbose, proc, pc>>

(***************************************************************************)
(* Bounds                                                                  *)
(***************************************************************************)
\* longest configuration text of the grouping specification
MaxTokens == 5
\* longest configuration text of the lexing specification
MaxText == 3
\* longest command queue of the execution specification
MaxQueue == 3

\* all sequences over S of length at most n
SeqsUpTo(S, n) == UNION {[1..k -> S] : k \in 0..n}

(***************************************************************************)
(* Process state                                                           *)
(***************************************************************************)
Running == [status |-> "running", exc |-> "none", code |-> 0]
Returned == [status |-> "returned", exc |-> "none", code |-> 0]
\* an exception nobody catches ends the script with the interpreter's status 1
Raised(e) == [status |-> "raised", exc |-> e, code |-> 1]
\* exit(n) of printf
Exited(n) == [status |-> "exited", exc |-> "SystemExit", code |-> n]

(***************************************************************************)
(* printf                                                                  *)
(***************************************************************************)
\* level[0].lower().strip()
printf_level(level) == level

\* the early returns for suppressed debug and verbose messages
printf_suppressed(level, dbg, vrb) ==
    \/ printf_level(level) = "d" /\ ~dbg
    \/ printf_level(level) = "v" /\ ~vrb

printf_mark(level) ==
    CASE printf_level(level) = "i" -> "*"
      [] printf_level(level) = "w" -> "!"
      [] printf_level(level) = "e" -> "@"
      [] printf_level(level) = "d" -> "~"
      [] printf_level(level) = "v" -> "."
      [] printf_level(level) = "f" -> "&"
      [] OTHER -> "?"

\* the formatted message; the messages of this model hold no newline, so the
\* replace of "\n" by the continuation mark leaves them as they are
printf_msg(string, level) == "[" \o printf_mark(level) \o "] " \o string

\* what a non-fatal printf appends to standard output and to the global log
printf_lines(string, level, dbg, vrb) ==
    IF printf_suppressed(level, dbg, vrb) THEN <<>>
    ELSE <<printf_msg(string, level)>>

(***************************************************************************)
(* ConfigRead.lex                                                          *)
(***************************************************************************)
ascii_letters ==
    {"a","b","c","d","e","f","g","h","i","j","k","l","m","n","o","p","q","r",
     "s","t","u","v","w","x","y","z","A","B","C","D","E","F","G","H","I","J",
     "K","L","M","N","O","P","Q","R","S","T","U","V","W","X","Y","Z"}
digits == {"0","1","2","3","4","5","6","7","8","9"}
\* string.punctuation; its backquote cannot be written in a string of this
\* language and is left out (it is an ordinary PUNCTUATION character)
punctuation ==
    {"!","\"","#","$","%","&","'","(",")","*","+",",","-",".","/",":",";",
     "<","=",">","?","@","[","\\","]","^","_","{","|","}","~"}

letters == [token \in ascii_letters |-> "LETTER"]
numbers == [token \in digits |-> "NUMBER"]
punc == [token \in punctuation |-> "PUNCTUATION"]
replace ==
    ("\\" :> "BACKSLASH") @@ ("#" :> "COMMENT") @@ ("'" :> "QUOTA") @@
    ("\"" :> "DOUBLE_QUOTA") @@ ("?" :> "VARIABLE") @@
    ("(" :> "PARENTESS_LEFT") @@ (")" :> "PARENTESS_RIGHT") @@
    ("-" :> "DASH") @@ (" " :> "WHITESPACE") @@ ("\n" :> "NLINE") @@
    (";" :> "NLINE")

\* dict.update: the keys of `other` overwrite those of d
dict_update(d, other) == other @@ d

\* the table with the overrides put in before the punctuation class
lex_table_punc_last ==
    dict_update(dict_update(dict_update(dict_update(<<>>, letters), numbers),
                            replace), punc)

\* the table _tokens after its four updates
lex_table ==
    dict_update(dict_update(dict_update(dict_update(<<>>, letters), numbers),
                            punc), replace)

\* one iteration of the loop of lex over character c at 0-based position p:
\* the token appended, or the diagnostic of the KeyError branch
lex_char(c, p, dbg, vrb) ==
    IF c \in DOMAIN lex_table
    THEN [tokens |-> <<<<lex_table[c], c>>>>, lines |-> <<>>]
    ELSE [tokens |-> <<>>,
          lines |-> printf_lines("Unknown symbol '" \o c \o "' at "
                                    \o ToString(p), "i", dbg, vrb)]

(***************************************************************************)
(* ConfigRead.split                                                        *)
(***************************************************************************)
\* the locals of split before its loop
split_init ==
    [out |-> <<<<<<>>, <<>>>>>>, write_to |-> 0, dash |-> FALSE,
     skipped |-> TRUE, put |-> TRUE]

\* out[-1][write_to].append(t)
group_append(o, w, t) == [o EXCEPT ![Len(o)][w + 1] = Append(@, t)]

\* the head of the loop body: the token before the scanned one is appended
split_put(s, toks, p) ==
    IF p # 0
    THEN [s EXCEPT !.out = IF s.put
                           THEN group_append(s.out, s.write_to, toks[p])
                           ELSE @,
                   !.put = TRUE]
    ELSE s

\* a DASH branch whose absorbed DASH is not appended afterwards
split_dash_drops(s) ==
    IF s.skipped THEN [s EXCEPT !.skipped = FALSE, !.put = FALSE]
    ELSE IF s.dash
         THEN [s EXCEPT !.put = FALSE,
                        !.write_to = (s.write_to + 1) % 2,
                        !.dash = FALSE]
         ELSE [s EXCEPT !.put = FALSE, !.dash = TRUE]

split_dash(s) ==
    IF s.skipped THEN [s EXCEPT !.skipped = FALSE]
    ELSE IF s.dash
         THEN [s EXCEPT !.put = FALSE,
                        !.write_to = (s.write_to + 1) % 2,
                        !.dash = FALSE]
         ELSE [s EXCEPT !.put = FALSE, !.dash = TRUE]

split_backslash(s) ==
    IF s.skipped THEN [s EXCEPT !.skipped = FALSE]
    ELSE [s EXCEPT !.put = FALSE, !.skipped = TRUE]

\* an NLINE branch that also sets the group index back to the flags group
split_nline_resets(s) ==
    IF s.skipped THEN [s EXCEPT !.skipped = FALSE]
    ELSE [s EXCEPT !.put = FALSE, !.out = Append(@, <<<<>>, <<>>>>),
                   !.write_to = 0]

split_nline(s) ==
    IF s.skipped THEN [s EXCEPT !.skipped = FALSE]
    ELSE [s EXCEPT !.put = FALSE, !.out = Append(@, <<<<>>, <<>>>>)]

split_other(s) == IF s.dash THEN [s EXCEPT !.dash = FALSE] ELSE s

\* one iteration of the loop of split, scanning toks[p + 1]
split_iter(s, toks, p) ==
    LET s1 == split_put(s, toks, p)
        cat == toks[p + 1][1]
    IN  CASE cat = "DASH" -> split_dash(s1)
          [] cat = "BACKSLASH" -> split_backslash(s1)
          [] cat = "NLINE" -> split_nline(s1)
          [] OTHER -> split_other(s1)

\* the loop of split from its iteration p on, and what split returns
RECURSIVE split_loop(_, _, _)
split_loop(s, toks, p) ==
    IF p = Len(toks) THEN s.out
    ELSE split_loop(split_iter(s, toks, p), toks, p + 1)

\* ConfigRead.split
split(toks) == split_loop(split_init, toks, 0)

(***************************************************************************)
(* ConfigRead.parse and ConfigRead.preparse                                *)
(***************************************************************************)
\* the local list `out` of parse after its loop over the statements, whose
\* body is `pass`
parse_out(splitted) == <<>>

\* the return statement of parse: "echo", out[0]
parse_return(splitted) ==
    IF Len(parse_out(splitted)) = 0
    THEN [exc |-> "IndexError", value |-> <<>>]
    ELSE [exc |-> "none", value |-> <<"echo", parse_out(splitted)[1]>>]

(***************************************************************************)
(* The construction of a ConfigRead: __init__ -> preparse -> parse         *)
(***************************************************************************)
\* the characters the grouping specification draws its texts from
SplitChars == {"a", "b", "-", "\\", "\n"}

\* the characters the lexing specification draws its texts from; the tab and
\* the e acute are not in the table
LexChars ==
    {"a", "Z", "5", "/", "\\", "#", "'", "\"", "?", "(", ")", "-", " ", "\n",
     ";", "\t", "é"}

\* mkdir -- /tmp/x
MkdirText ==
    <<"m","k","d","i","r"," ","-","-"," ","/","t","m","p","/","x">>

\* mkdir -- /tmp/x\necho -- hello world\n
ExampleText ==
    MkdirText \o <<"\n","e","c","h","o"," ","-","-"," ","h","e","l","l","o",
                   " ","w","o","r","l","d","\n">>

\* ConfigRead(file) has set queue = [] and the registry and enters preparse,
\* whose parse("".join(self.file.read())) enters lex
InitConstruct(texts) ==
    /\ data \in texts
    /\ tokens = <<>>
    /\ pos = 0
    /\ out = split_init.out
    /\ write_to = split_init.write_to
    /\ dash = split_init.dash
    /\ skipped = split_init.skipped
    /\ put = split_init.put
    /\ placed = <<>>
    /\ scanned = <<>>
    /\ queue = <<>>
    /\ command_pointer = 0
    /\ fs = [dirs |-> {}, ops |-> <<>>, bad |-> {}]
    /\ calls = <<>>
    /\ failed = <<>>
    /\ stdout = <<>>
    /\ log = <<>>
    /\ debug = TRUE
    /\ verbose = FALSE
    /\ proc = Running
    /\ pc = "lex"

\* -a--b\ncd
CarryText == <<"-", "a", "-", "-", "b", "\n", "c", "d">>

Init ==
    InitConstruct(SeqsUpTo(SplitChars, MaxTokens)
                      \cup {MkdirText, ExampleText, CarryText})

InitLex == InitConstruct(SeqsUpTo(LexChars, MaxText))

\* lex: one iteration of `for pos, x in enumerate(data)`
lex_step ==
    /\ pc = "lex"
    /\ pos < Len(data)
    /\ LET r == lex_char(data[pos + 1], pos, debug, verbose)
       IN  /\ tokens' = tokens \o r.tokens
           /\ stdout' = stdout \o r.lines
           /\ log' = log \o r.lines
    /\ pos' = pos + 1
    /\ UNCHANGED <<data, out, write_to, dash, skipped, put, placed, scanned,
                   queue, command_pointer, fs, calls, failed, debug, verbose,
                   proc, pc>>

\* lex returns its tokens; parse prints them and calls split, which sets its
\* locals
parse_lexed ==
    /\ pc = "lex"
    /\ pos = Len(data)
    /\ stdout' = Append(stdout, tokens)
    /\ pos' = 0
    /\ out' = split_init.out
    /\ write_to' = split_init.write_to
    /\ dash' = split_init.dash
    /\ skipped' = split_init.skipped
    /\ put' = split_init.put
    /\ pc' = "split"
    /\ UNCHANGED <<data, tokens, placed, scanned, queue, command_pointer, fs,
                   calls, failed, log, debug, verbose, proc>>

\* split: one iteration of `for pos, x in enumerate(tokens)`
split_step ==
    /\ pc = "split"
    /\ pos < Len(tokens)
    /\ LET s == [out |-> out, write_to |-> write_to, dash |-> dash,
                 skipped |-> skipped, put |-> put]
           t == split_iter(s, tokens, pos)
       IN  /\ out' = t.out
           /\ write_to' = t.write_to
           /\ dash' = t.dash
           /\ skipped' = t.skipped
           /\ put' = t.put
    /\ placed' = IF pos # 0 /\ put
                 THEN Append(placed, <<pos, Len(out), write_to>>)
                 ELSE placed
    /\ scanned' = Append(scanned, <<Len(out), write_to, dash, skipped>>)
    /\ pos' = pos + 1
    /\ UNCHANGED <<data, tokens, queue, command_pointer, fs, calls, failed,
                   stdout, log, debug, verbose, proc, pc>>

\* split returns; parse prints the statements, runs its empty loop and
\* returns "echo", out[0]; an exception leaves parse, preparse and __init__,
\* otherwise preparse prints the result and appends its entry to the queue
parse_splitted ==
    /\ pc = "split"
    /\ pos = Len(tokens)
    /\ LET r == parse_return(out)
       IN  IF r.exc # "none"
           THEN /\ stdout' = Append(stdout, out)
                /\ proc' = Raised(r.exc)
                /\ queue' = queue
           ELSE /\ stdout' = stdout \o <<out, r.value>>
                /\ proc' = Returned
                /\ queue' = Append(queue, <<"echo", <<"rbphphg">>>>)
    /\ pc' = "constructed"
    /\ UNCHANGED <<data, tokens, pos, out, write_to, dash, skipped, put,
                   placed, scanned, command_pointer, fs, calls, failed, log,
                   debug, verbose>>

NextConstruct ==
    \/ lex_step
    \/ parse_lexed
    \/ split_step
    \/ parse_splitted

Spec == Init /\ [][NextConstruct]_vars

SpecLex == InitLex /\ [][NextConstruct]_vars

(***************************************************************************)
(* Result                                                                  *)
(***************************************************************************)
\* what a call that raised hands back instead of a value
NoValue == [result |-> FALSE, data |-> "none"]

\* the body of Result.__init__ for a value of the given kind: an exception,
\* an iterable (v its items, each an iterable or not) or anything else
Result_init(kind, v) ==
    CASE kind = "iterable" ->
             \* tuple(*_data) takes at most one argument, itself an iterable
             IF Len(v) = 0 \/ (Len(v) = 1 /\ v[1] = "iterable")
             THEN [exc |-> "none", obj |-> [result |-> TRUE, data |-> "tuple"]]
             ELSE [exc |-> "TypeError", obj |-> NoValue]
      [] kind = "exception" ->
             [exc |-> "none",
              obj |-> [result |-> FALSE, data |-> "<class 'Exception'>"]]
      [] OTHER -> [exc |-> "none", obj |-> [result |-> TRUE, data |-> v]]

\* the call Result(...) with npos positional arguments and the keyword
\* arguments kwargs: __init__(self, data) takes exactly one argument, named
\* data, and every other call raises TypeError before the body runs
Result_new(npos, kwargs, kind, v) ==
    IF (npos = 1 /\ kwargs = {}) \/ (npos = 0 /\ kwargs = {"data"})
    THEN Result_init(kind, v)
    ELSE [exc |-> "TypeError", obj |-> NoValue]

is_err(r) == ~r.result

\* the depth at which the interpreter ends the recursion of a fatal printf
\* under verbose
RecursionLimit == 3

\* printf(string, level='f'): print and log, then exit(2), or under verbose
\* the call of itself again
printf_fatal(string, vrb) ==
    IF ~vrb
    THEN [lines |-> <<printf_msg(string, "f")>>, exc |-> "SystemExit"]
    ELSE [lines |-> [i \in 1..RecursionLimit |-> printf_msg(string, "f")],
          exc |-> "RecursionError"]

\* Result.unwrap
unwrap(r, vrb) ==
    IF is_err(r) THEN printf_fatal(r.data, vrb)
    ELSE [lines |-> <<>>, exc |-> "none"]

(***************************************************************************)
(* The command handlers                                                    *)
(*                                                                         *)
(* A handler's outcome is [exc, ret, lines, logs, fs, queue, fail]: the     *)
(* exception that leaves it ("none" when it returns ret), the lines it     *)
(* wrote to standard output and to the global log, the filesystem and the  *)
(* queue (self.queue) it leaves, and whether it met a failure (a           *)
(* filesystem call that raised, a violated precondition, a missing         *)
(* argument).  bad is the set of paths on which the filesystem call        *)
(* raises.                                                                 *)
(***************************************************************************)
\* the index of the first element of d in bad, Len(d) + 1 when there is none
first_bad(d, bad) ==
    IF \E i \in 1..Len(d) : d[i] \in bad
    THEN CHOOSE i \in 1..Len(d) :
             d[i] \in bad /\ \A j \in 1..(i - 1) : d[j] \notin bad
    ELSE Len(d) + 1

\* " ".join(d)
join(d) ==
    IF Len(d) = 0 THEN ""
    ELSE LET F[i \in 1..Len(d)] ==
                 IF i = 1 THEN d[1] ELSE F[i - 1] \o " " \o d[i]
         IN  F[Len(d)]

build(q, cp, f) ==
    LET r == Result_new(0, {}, "none", "none")
    IN  [exc |-> r.exc, ret |-> r.obj, lines |-> <<>>, logs |-> <<>>,
         fs |-> f, queue |-> q,
             fail |-> FALSE]

\* an echo that also takes the first entry off the queue
echo_pops(q, cp, f) ==
    LET d == q[cp + 1][2]
        r == Result_new(0, {}, "none", "none")
    IN  [exc |-> r.exc, ret |-> r.obj, lines |-> <<join(d)>>,
         logs |-> <<>>, fs |-> f, queue |-> Tail(q), fail |-> FALSE]

echo(q, cp, f) ==
    LET d == q[cp + 1][2]
        r == Result_new(0, {}, "none", "none")
    IN  [exc |-> r.exc, ret |-> r.obj, lines |-> <<join(d)>>,
         logs |-> <<>>, fs |-> f, queue |-> q,
             fail |-> FALSE]

mkdir(q, cp, f, bad) ==
    LET d == q[cp + 1][2]
        k == first_bad(d, bad)
        made == [i \in 1..(k - 1) |-> <<"makedirs", d[i]>>]
        r == IF k <= Len(d)
             THEN Result_new(0, {"e"}, "exception", "none")
             ELSE Result_new(0, {}, "none", "none")
    IN  [exc |-> r.exc, ret |-> r.obj, lines |-> <<>>, logs |-> <<>>,
         fs |-> [dirs |-> f.dirs \cup {d[i] : i \in 1..(k - 1)},
                 ops |-> f.ops \o made, bad |-> f.bad],
         queue |-> q, fail |-> k <= Len(d)]

\* os.path.basename on the paths of this model
basename(path) ==
    CASE path = "/a" -> "a"
      [] path = "/b" -> "b"
      [] path = "/dst" -> "dst"
      [] path = "/tmp/x" -> "x"
      [] OTHER -> path

\* the two conditions under which _fs_io_check builds its error
fs_io_violated(src, dst, f) ==
    \/ dst \notin f.dirs /\ Len(src) > 1
    \/ Len(src) < 1

\* a check that passes whatever its arguments are
fs_io_check_passes(src, dst, f) ==
    [exc |-> "none", obj |-> [result |-> TRUE, data |-> "none"]]

\* ConfigRead._fs_io_check
fs_io_check(src, dst, f) ==
    IF dst \notin f.dirs /\ Len(src) > 1
    THEN Result_new(0, {"e"}, "exception", "none")
    ELSE IF Len(src) < 1
         THEN Result_new(0, {"e"}, "exception", "none")
         ELSE Result_new(0, {}, "none", "none")

\* ConfigRead._fs_io_real: the call it makes, <<function, src, dst>>
fs_io_real(src, dst, f, src_dir_hand, src_oth_hand) ==
    LET dst1 == IF dst \in f.dirs THEN dst \o "/" \o basename(src) ELSE dst
    IN  IF src \in f.dirs THEN <<src_dir_hand, src, dst1>>
        ELSE <<src_oth_hand, src, dst1>>

\* the filesystem after the call op of _fs_io_real: a copied or moved tree
\* is a directory at its destination, a moved one is gone from its source
fs_after(f, op) ==
    [dirs |-> IF op[2] \in f.dirs
              THEN (IF op[1] = "move" THEN f.dirs \ {op[2]} ELSE f.dirs)
                       \cup {op[3]}
              ELSE f.dirs,
     ops |-> Append(f.ops, op), bad |-> f.bad]

\* the loop of copy and move over sources[i..], from filesystem f
RECURSIVE fs_io_loop(_, _, _, _, _, _, _, _)
fs_io_loop(q, src, i, dst, f, bad, dir_hand, oth_hand) ==
    IF i > Len(src)
    THEN LET r == Result_new(0, {}, "none", "none")
         IN  [exc |-> r.exc, ret |-> r.obj, lines |-> <<>>, logs |-> <<>>,
              fs |-> f, queue |-> q,
             fail |-> FALSE]
    ELSE IF src[i] \in bad
         THEN LET r == Result_new(0, {"e"}, "exception", "none")
              IN  [exc |-> r.exc, ret |-> r.obj, lines |-> <<>>,
                   logs |-> <<>>, fs |-> f, queue |-> q,
             fail |-> TRUE]
         ELSE fs_io_loop(q, src, i + 1, dst,
                         fs_after(f, fs_io_real(src[i], dst, f, dir_hand,
                                                oth_hand)),
                         bad, dir_hand, oth_hand)

\* the common body of copy and move
fs_io(q, cp, f, bad, vrb, dir_hand, oth_hand) ==
    LET d == q[cp + 1][2]
    IN  IF Len(d) = 0
        THEN \* data[-1] of an empty list
             [exc |-> "IndexError", ret |-> NoValue, lines |-> <<>>,
              logs |-> <<>>, fs |-> f, queue |-> q,
             fail |-> TRUE]
        ELSE LET destination == d[Len(d)]
                 sources == SubSeq(d, 1, Len(d) - 1)
                 c == fs_io_check(sources, destination, f)
                 violated == fs_io_violated(sources, destination, f)
             IN  IF c.exc # "none"
                 THEN [exc |-> c.exc, ret |-> NoValue, lines |-> <<>>,
                       logs |-> <<>>, fs |-> f, queue |-> q,
             fail |-> violated]
                 ELSE LET u == unwrap(c.obj, vrb)
                      IN  IF u.exc # "none"
                          THEN [exc |-> u.exc, ret |-> NoValue,
                                lines |-> u.lines, logs |-> u.lines,
                                fs |-> f, queue |-> q,
             fail |-> violated]
                          ELSE fs_io_loop(q, sources, 1, destination, f,
                                          bad,
                                          dir_hand, oth_hand)

copy(q, cp, f, bad, vrb) == fs_io(q, cp, f, bad, vrb, "copytree", "copyfile")

move(q, cp, f, bad, vrb) == fs_io(q, cp, f, bad, vrb, "move", "move")

(***************************************************************************)
(* ConfigRead.run                                                          *)
(***************************************************************************)
command_registry == {"copy", "echo", "mkdir", "move", "build"}

\* self.command_registry[command](x): the lookup, then the handler
registry_call(q, cp, f, bad, vrb) ==
    LET command == q[cp + 1][1]
    IN  CASE command = "copy" -> copy(q, cp, f, bad, vrb)
          [] command = "echo" -> echo(q, cp, f)
          [] command = "mkdir" -> mkdir(q, cp, f, bad)
          [] command = "move" -> move(q, cp, f, bad, vrb)
          [] command = "build" -> build(q, cp, f)
          [] OTHER -> [exc |-> "KeyError", ret |-> NoValue, lines |-> <<>>,
                       logs |-> <<>>, fs |-> f, queue |-> q,
             fail |-> FALSE]

\* the except clause of run
run_catches(exc) == exc = "KeyError"

\* how an exception that leaves run ends the process
proc_after(exc) ==
    IF exc = "SystemExit" THEN Exited(2) ELSE Raised(exc)

\* the elements of a sequence
Range(d) == {d[i] : i \in 1..Len(d)}

\* the queue entries of the execution specification
Entries ==
    {<<"frobnicate", <<>>>>, <<"echo", <<"ok">>>>,
     <<"echo", <<"hello", "world">>>>, <<"mkdir", <<"/a", "/b">>>>,
     <<"copy", <<"/a", "/b", "/dst">>>>,
     <<"copy", <<>>>>, <<"move", <<"/a", "/dst">>>>, <<"build", <<>>>>}

\* an instance whose queue is one of queues, at the call of run
InitExec(queues) ==
    /\ data = <<>>
    /\ tokens = <<>>
    /\ pos = 0
    /\ out = split_init.out
    /\ write_to = split_init.write_to
    /\ dash = split_init.dash
    /\ skipped = split_init.skipped
    /\ put = split_init.put
    /\ placed = <<>>
    /\ scanned = <<>>
    /\ queue \in queues
    /\ command_pointer = 0
    /\ fs \in {[dirs |-> ds, ops |-> <<>>, bad |-> {}] :
                  ds \in SUBSET {"/a", "/dst"}}
    /\ calls = <<>>
    /\ failed = <<>>
    /\ stdout = <<>>
    /\ log = <<>>
    /\ debug \in BOOLEAN
    /\ verbose \in BOOLEAN
    /\ proc = Running
    /\ pc = "run"

InitRun == InitExec(SeqsUpTo(Entries, MaxQueue))

\* one iteration of the loop of run whose lookup finds no handler
run_unknown ==
    /\ pc = "run"
    /\ command_pointer < Len(queue)
    /\ queue[command_pointer + 1][1] \notin command_registry
    /\ LET o == registry_call(queue, command_pointer, fs, {}, verbose)
           lines == printf_lines("Unresolved command: "
                                     \o queue[command_pointer + 1][1],
                                 "e", debug, verbose)
       IN  IF run_catches(o.exc)
           THEN /\ stdout' = stdout \o lines
                /\ log' = log \o lines
                /\ command_pointer' = command_pointer + 1
                /\ UNCHANGED <<proc, pc>>
           ELSE /\ proc' = proc_after(o.exc)
                /\ pc' = "stopped"
                /\ UNCHANGED <<stdout, log, command_pointer>>
    /\ UNCHANGED <<data, tokens, pos, out, write_to, dash, skipped, put,
                   placed, scanned, queue, fs, calls, failed, debug, verbose>>

\* one iteration of the loop of run whose lookup finds a handler: the
\* handler runs and its Result is unwrapped
run_call ==
    /\ pc = "run"
    /\ command_pointer < Len(queue)
    /\ queue[command_pointer + 1][1] \in command_registry
    /\ \E bad \in SUBSET Range(queue[command_pointer + 1][2]) :
        LET o == registry_call(queue, command_pointer, fs, bad, verbose)
            u == IF o.exc = "none" THEN unwrap(o.ret, verbose)
                 ELSE [lines |-> <<>>, exc |-> o.exc]
            lines == printf_lines("Unresolved command: "
                                      \o queue[command_pointer + 1][1],
                                  "e", debug, verbose)
        IN  /\ calls' = Append(calls, command_pointer)
            /\ failed' = IF o.fail THEN Append(failed, command_pointer)
                         ELSE failed
            /\ fs' = [o.fs EXCEPT !.bad = bad]
            /\ queue' = o.queue
            /\ IF u.exc = "none"
               THEN /\ stdout' = stdout \o o.lines
                    /\ log' = log \o o.logs
                    /\ command_pointer' = command_pointer + 1
                    /\ UNCHANGED <<proc, pc>>
               ELSE IF run_catches(u.exc)
               THEN /\ stdout' = stdout \o o.lines \o lines
                    /\ log' = log \o o.logs \o lines
                    /\ command_pointer' = command_pointer + 1
                    /\ UNCHANGED <<proc, pc>>
               ELSE /\ stdout' = stdout \o o.lines \o u.lines
                    /\ log' = log \o o.logs \o u.lines
                    /\ proc' = proc_after(u.exc)
                    /\ pc' = "stopped"
                    /\ UNCHANGED command_pointer
    /\ UNCHANGED <<data, tokens, pos, out, write_to, dash, skipped, put,
                   placed, scanned, debug, verbose>>

\* run returns: the queue is empty, or its loop is over
run_return ==
    /\ pc = "run"
    /\ command_pointer = Len(queue)
    /\ proc' = Returned
    /\ pc' = "run_done"
    /\ UNCHANGED <<data, tokens, pos, out, write_to, dash, skipped, put,
                   placed, scanned, queue, command_pointer, fs, calls,
                   failed, stdout, log, debug, verbose>>

NextRun ==
    \/ run_unknown
    \/ run_call
    \/ run_return

SpecRun == InitRun /\ [][NextRun]_vars

(***************************************************************************)
(* main                                                                    *)
(***************************************************************************)
\* longest configuration text of the specification of main
MaxMainText == 2

\* the script at the call of main, under every setting of the two flags of
\* definitions; data is the text of the architecture's configuration file
InitMain ==
    /\ data \in SeqsUpTo(SplitChars, MaxMainText)
    /\ tokens = <<>>
    /\ pos = 0
    /\ out = split_init.out
    /\ write_to = split_init.write_to
    /\ dash = split_init.dash
    /\ skipped = split_init.skipped
    /\ put = split_init.put
    /\ placed = <<>>
    /\ scanned = <<>>
    /\ queue = <<>>
    /\ command_pointer = 0
    /\ fs = [dirs |-> {}, ops |-> <<>>, bad |-> {}]
    /\ calls = <<>>
    /\ failed = <<>>
    /\ stdout = <<>>
    /\ log = <<>>
    /\ debug \in BOOLEAN
    /\ verbose \in BOOLEAN
    /\ proc = Running
    /\ pc = "main"

\* main: the machine's architecture is not one of arch_support, and
\* printf("Arch not supported yet!", level="f") is called
main_unsupported ==
    /\ pc = "main"
    /\ LET o == printf_fatal("Arch not supported yet!", verbose)
       IN  /\ stdout' = stdout \o o.lines
           /\ log' = log \o o.lines
           /\ proc' = proc_after(o.exc)
    /\ pc' = "fatal"
    /\ UNCHANGED <<data, tokens, pos, out, write_to, dash, skipped, put,
                   placed, scanned, queue, command_pointer, fs, calls, failed,
                   debug, verbose>>

\* main: the architecture is supported and ConfigRead is constructed
main_supported ==
    /\ pc = "main"
    /\ pc' = "file"
    /\ UNCHANGED <<data, tokens, pos, out, write_to, dash, skipped, put,
                   placed, scanned, queue, command_pointer, fs, calls, failed,
                   stdout, log, debug, verbose, proc>>

\* File.__init__: the path of the configuration is a directory, and
\* printf("Path is dir, cannot use it as file!", level='f') is called
file_is_dir ==
    /\ pc = "file"
    /\ LET o == printf_fatal("Path is dir, cannot use it as file!", verbose)
       IN  /\ stdout' = stdout \o o.lines
           /\ log' = log \o o.lines
           /\ proc' = proc_after(o.exc)
    /\ pc' = "fatal"
    /\ UNCHANGED <<data, tokens, pos, out, write_to, dash, skipped, put,
                   placed, scanned, queue, command_pointer, fs, calls, failed,
                   debug, verbose>>

\* File.__init__ and File.read: the path is a file, its text is read and lexed
file_read ==
    /\ pc = "file"
    /\ pc' = "lex"
    /\ UNCHANGED <<data, tokens, pos, out, write_to, dash, skipped, put,
                   placed, scanned, queue, command_pointer, fs, calls, failed,
                   stdout, log, debug, verbose, proc>>

NextMain ==
    \/ main_unsupported
    \/ main_supported
    \/ file_is_dir
    \/ file_read
    \/ lex_step
    \/ parse_lexed
    \/ split_step
    \/ parse_splitted

SpecMain == InitMain /\ [][NextMain]_vars

(***************************************************************************)
(* run on one copy or move entry                                           *)
(***************************************************************************)
\* most arguments of a copy or move entry
MaxArgs == 3

\* the copy and move entries over three paths
FsEntries ==
    {<<c, d>> : c \in {"copy", "move"},
                d \in SeqsUpTo({"/a", "/b", "/dst"}, MaxArgs)}

\* an instance whose queue holds one copy or move entry, or one entry no
\* handler is registered for, at the call of run
InitFsIo == InitExec({<<e>> : e \in FsEntries \cup {<<"frobnicate", <<>>>>}})

SpecFsIo == InitFsIo /\ [][NextRun]_vars

(***************************************************************************)
(* Properties of the construction: lex, split, parse                       *)
(***************************************************************************)
\* the increasing sequence of the members of a set of indices
RECURSIVE Sorted(_)
Sorted(S) ==
    IF S = {} THEN <<>>
    ELSE LET m == CHOOSE n \in S : \A k \in S : k <= n
         IN  Append(Sorted(S \ {m}), m)

\* split has returned (parse_splitted leaves its result in out)
SplitReturned == pc = "constructed"

Category(i) == tokens[i][1]

\* a token split treats as ordinary
Ordinary(i) == Category(i) \notin {"DASH", "BACKSLASH", "NLINE"}

\* the token positions appended to some group, in the order of the appends
PlacedPositions == [k \in 1..Len(placed) |-> placed[k][1]]

\* the number of times the token at position i was appended
TimesPlaced(i) == Cardinality({k \in 1..Len(placed) : placed[k][1] = i})

\* every token held by some group of the result
GroupTokens == UNION {Range(out[s][g]) : s \in 1..Len(out), g \in 1..2}

\* the tokens of the appends made to group g of statement s, in their order
PlacedIn(s, g) ==
    LET e == SelectSeq(placed, LAMBDA r : r[2] = s /\ r[3] = g)
    IN  [k \in 1..Len(e) |-> tokens[e[k][1]]]

\* C1: constructing a ConfigRead completes without raising and leaves a queue
\* with one entry per non-empty statement of the text, in order; for the text
\* "mkdir -- /tmp/x", newline, "echo -- hello world", newline, the queue is
\* [(mkdir, [/tmp/x]), (echo, [hello, world])].
C1_QueuePerStatement ==
    pc = "constructed" =>
        /\ proc.status = "returned"
        /\ Len(queue) =
               Cardinality({i \in 1..Len(out) : out[i] # <<<<>>, <<>>>>})
        /\ data = ExampleText =>
               queue = <<<<"mkdir", <<"/tmp/x">>>>,
                         <<"echo", <<"hello", "world">>>>>>

\* the category the classification table of the lexer gives character c:
\* the single-character overrides first, then letters, digits, punctuation
TableCategory(c) ==
    CASE c = "\\" -> "BACKSLASH"
      [] c = "#" -> "COMMENT"
      [] c = "'" -> "QUOTA"
      [] c = "\"" -> "DOUBLE_QUOTA"
      [] c = "?" -> "VARIABLE"
      [] c = "(" -> "PARENTESS_LEFT"
      [] c = ")" -> "PARENTESS_RIGHT"
      [] c = "-" -> "DASH"
      [] c = " " -> "WHITESPACE"
      [] c = "\n" -> "NLINE"
      [] c = ";" -> "NLINE"
      [] c \in ascii_letters -> "LETTER"
      [] c \in digits -> "NUMBER"
      [] c \in punctuation -> "PUNCTUATION"
      [] OTHER -> "unmapped"

\* one [category, character] token per mapped character of d, in order
RECURSIVE TableTokens(_)
TableTokens(d) ==
    IF Len(d) = 0 THEN <<>>
    ELSE LET c == d[Len(d)]
             front == TableTokens(SubSeq(d, 1, Len(d) - 1))
         IN  IF TableCategory(c) = "unmapped" THEN front
             ELSE Append(front, <<TableCategory(c), c>>)

\* the positions of d that hold an unmapped character
Unmapped(d) == {i \in 1..Len(d) : TableCategory(d[i]) = "unmapped"}

\* the part of the text lex has scanned
Lexed == IF pc = "lex" THEN SubSeq(data, 1, pos) ELSE data

\* C2: lex returns, in input order, exactly one [category, character] token
\* for each character of the classification table (overrides before the
\* letter, digit and punctuation classes, newline and ";" both NLINE); a
\* character outside the table gives one diagnostic, no token, and lexing
\* goes on with the next character.
C2_LexFollowsTable ==
    /\ tokens = TableTokens(Lexed)
    /\ LET bad == Sorted(Unmapped(Lexed))
       IN  log = [k \in 1..Len(bad) |->
                     "[*] Unknown symbol '" \o data[bad[k]] \o "' at "
                         \o ToString(bad[k] - 1)]
    /\ pc \in {"lex", "split"} => proc = Running

\* lex has returned the tokens of a text whose unmapped character stands
\* between an overridden punctuation character and the statement separator
C2_Witness ==
    /\ pc = "split"
    /\ data = <<"-", "\t", ";">>
    /\ tokens = <<<<"DASH", "-">>, <<"NLINE", ";">>>>
    /\ log = <<"[*] Unknown symbol '\t' at 1">>

\* the first DASH of a pair that is not at the start of the input and does
\* not continue a run of DASH tokens
DashPairAt(i) ==
    /\ i >= 2
    /\ i + 1 <= Len(tokens)
    /\ Category(i) = "DASH"
    /\ Category(i + 1) = "DASH"
    /\ Category(i - 1) # "DASH"

\* C3: a DASH that is not the first token, followed at once by another DASH,
\* is a group delimiter: scanning the second one flips the group index once
\* and leaves no DASH pending, so the tokens before the pair land in one
\* group and those after it in the other; the tokens of "mkdir -- /tmp/x"
\* put the letters of mkdir in flags and the characters of /tmp/x in values.
C3_DoubleDashFlips ==
    /\ pc = "split" =>
           \A i \in 2..Len(tokens) :
               (DashPairAt(i) /\ pos = i + 1) =>
                   /\ write_to = 1 - scanned[i][2]
                   /\ dash = FALSE
    /\ (SplitReturned /\ data = MkdirText) =>
           /\ Len(out) = 1
           /\ \A c \in {"m", "k", "d", "i", "r"} :
                  /\ <<"LETTER", c>> \in Range(out[1][1])
                  /\ <<"LETTER", c>> \notin Range(out[1][2])
           /\ \A t \in {<<"PUNCTUATION", "/">>, <<"LETTER", "t">>,
                        <<"LETTER", "p">>, <<"LETTER", "x">>} :
                  /\ t \in Range(out[1][2])
                  /\ t \notin Range(out[1][1])

\* C4: no DASH token is in the flags group or the values group of any
\* statement split returns.
C4_NoDashInGroups ==
    SplitReturned => \A t \in GroupTokens : t[1] # "DASH"

\* C5: every NLINE token but a very first one closes the current statement:
\* the result gains a new pair there, the tokens scanned after it belong to
\* the new statement, and no NLINE token is in any group.
C5_NewlineCloses ==
    SplitReturned =>
        /\ Len(out) =
               1 + Cardinality({i \in 2..Len(tokens) : Category(i) = "NLINE"})
        /\ \A i \in 2..(Len(tokens) - 1) :
               Category(i) = "NLINE" => scanned[i + 1][1] = scanned[i][1] + 1
        /\ \A t \in GroupTokens : t[1] # "NLINE"

\* C6: for every BACKSLASH token but a very first one, neither the BACKSLASH
\* nor the token right after it is appended to any group.
C6_BackslashEscapes ==
    SplitReturned =>
        \A i \in 2..Len(tokens) :
            Category(i) = "BACKSLASH" =>
                /\ TimesPlaced(i) = 0
                /\ i + 1 <= Len(tokens) => TimesPlaced(i + 1) = 0

\* C7: every ordinary token not right after a BACKSLASH is in the result
\* exactly once, in the group the group index selected in the statement open
\* when it was scanned, in input order; the last token of the input too.
C7_OrdinaryTokensKept ==
    SplitReturned =>
        /\ \A s \in 1..Len(out), g \in 1..2 : out[s][g] = PlacedIn(s, g - 1)
        /\ \A k \in 1..(Len(placed) - 1) : placed[k][1] < placed[k + 1][1]
        /\ \A i \in 1..Len(tokens) :
               (Ordinary(i) /\ (i = 1 \/ Category(i - 1) # "BACKSLASH")) =>
                   /\ TimesPlaced(i) = 1
                   /\ <<i, scanned[i][1], scanned[i][2]>> \in Range(placed)

\* C8: the result of split holds no statement whose flags group and values
\* group are both empty.
C8_NoEmptyStatement ==
    SplitReturned => \A s \in 1..Len(out) : out[s] # <<<<>>, <<>>>>

\* C15: grouping is idempotent on flattened input: when split returns a
\* single statement (F, V), split of F is the single statement (F, empty)
\* and split of V is the single statement (V, empty); and when no token is
\* a DASH, a BACKSLASH or an NLINE, split returns the single statement
\* (tokens, empty).
C15_RegroupingIdempotent ==
    SplitReturned =>
        /\ Len(out) = 1 =>
               /\ split(out[1][1]) = <<<<out[1][1], <<>>>>>>
               /\ split(out[1][2]) = <<<<out[1][2], <<>>>>>>
        /\ (\A i \in 1..Len(tokens) : Ordinary(i)) =>
               out = <<<<tokens, <<>>>>>>

\* the locals <<statement, write_to, dash, skipped>> of split after token i
\* was scanned
AfterScan(i) ==
    IF i < Len(scanned) THEN scanned[i + 1]
    ELSE <<Len(out), write_to, dash, skipped>>

\* C17: the group index changes only while a DASH is scanned whose preceding
\* token is a DASH too; a pending lone DASH followed by any other token (an
\* ordinary one, a BACKSLASH, an NLINE) is disarmed, so two DASH tokens with
\* other tokens or a statement boundary between them never flip the group.
C17_FlipNeedsAdjacentDashes ==
    \A i \in 1..Len(scanned) :
        /\ AfterScan(i)[2] # scanned[i][2] =>
               /\ Category(i) = "DASH"
               /\ i > 1 /\ Category(i - 1) = "DASH"
        /\ (scanned[i][3] /\ Category(i) # "DASH") => ~AfterScan(i)[3]

\* token i was scanned with the escape flag armed and cleared it
Absorbed(i) == ~Ordinary(i) /\ scanned[i][4]

\* C18: the escape flag is armed before the first token and after every
\* BACKSLASH that is not absorbed, and only the next DASH, BACKSLASH or NLINE
\* clears it, wherever that token stands (ordinary tokens leave it armed);
\* the absorbed token changes neither the group index nor the pending-dash
\* flag nor the number of statements, and it is appended to the current
\* group when the token after it is scanned.
C18_EscapeFlag ==
    /\ (pc = "split" /\ scanned = <<>>) => skipped
    /\ \A i \in 1..Len(scanned) :
           /\ AfterScan(i)[4] =
                  IF Ordinary(i) THEN scanned[i][4]
                  ELSE IF scanned[i][4] THEN FALSE
                  ELSE Category(i) = "BACKSLASH"
           /\ Absorbed(i) =>
                  /\ AfterScan(i)[1] = scanned[i][1]
                  /\ AfterScan(i)[2] = scanned[i][2]
                  /\ AfterScan(i)[3] = scanned[i][3]
                  /\ i < Len(scanned) =>
                         /\ TimesPlaced(i) = 1
                         /\ <<i, scanned[i][1], scanned[i][2]>>
                                \in Range(placed)

\* two backslashes, a dash, a letter: the first BACKSLASH is absorbed, the
\* second arms the flag again, the DASH is absorbed, and both absorbed tokens
\* are in the flags group
C18_Witness ==
    /\ SplitReturned
    /\ data = <<"\\", "\\", "-", "a">>
    /\ Absorbed(1) /\ ~Absorbed(2) /\ Absorbed(3)
    /\ out = <<<<<<tokens[1], tokens[3]>>, <<>>>>>>

Known(i) == queue[i + 1][1] \in command_registry

\* the 0-based queue indices the loop of run has dealt with
Handled ==
    IF pc = "stopped" THEN 0..command_pointer ELSE 0..(command_pointer - 1)

UnresolvedLine(i) == "[@] Unresolved command: " \o queue[i + 1][1]

\* C9: run takes the queue entries in increasing index order, and an entry
\* whose name is not in the registry only gives an error-level diagnostic:
\* every later entry is still looked up and executed (a handler that fails
\* ends the run, so the runs in which none failed are the ones stated).
C9_LaterEntriesExecuted ==
    /\ calls = Sorted({i \in Handled : Known(i)})
    /\ \A i \in Handled : ~Known(i) => UnresolvedLine(i) \in Range(log)
    /\ (pc # "run" /\ failed = <<>>) =>
           \A i \in Handled : \A j \in (i + 1)..(Len(queue) - 1) :
               (~Known(i) /\ Known(j)) => j \in Range(calls)

\* C10: when the handler of a queue entry fails, the failure reaches run as
\* an Err Result whose unwrap logs the error and ends the process with exit
\* status 2, and no handler of a later entry is invoked.
C10_HandlerFailureExits ==
    failed # <<>> =>
        /\ proc = Exited(2)
        /\ \E k \in 1..Len(log) : log[k] = "[&] <class 'Exception'>"
        /\ calls[Len(calls)] = failed[1]

\* C13: for every argument list, echo writes its arguments joined by spaces
\* to standard output and returns an Ok Result, and build returns an Ok
\* Result; neither raises, neither ends the run.
C13_EchoBuildSucceed ==
    \A k \in 1..Len(calls) :
        queue[calls[k] + 1][1] \in {"echo", "build"} =>
            LET o == registry_call(queue, calls[k], fs, {}, verbose)
            IN  /\ o.exc = "none" /\ ~is_err(o.ret)
                /\ queue[calls[k] + 1][1] = "echo" =>
                       join(queue[calls[k] + 1][2]) \in Range(stdout)
                /\ calls[k] \notin Range(failed)
                /\ ~(pc = "stopped" /\ command_pointer = calls[k])

\* the number of elements of the sequence d equal to m
Occurrences(d, m) == Cardinality({i \in 1..Len(d) : d[i] = m})

\* the messages of the fatal calls of main and File, as printf formats them
FatalLines ==
    {printf_msg("Arch not supported yet!", "f"),
     printf_msg("Path is dir, cannot use it as file!", "f")}

\* C14: every call of printf at the fatal level, under every setting of
\* debug and verbose, prints the message once and logs it once, then ends
\* the process with exit status 2: it neither returns to its caller nor
\* goes on for ever.
C14_FatalExitsWithStatus2 ==
    pc = "fatal" =>
        /\ proc = Exited(2)
        /\ \E m \in FatalLines :
               Occurrences(stdout, m) = 1 /\ Occurrences(log, m) = 1

\* C16: the queue is read-only during execution: whatever handlers run
\* invokes (copy, move, mkdir, echo, build) and whatever unknown names it
\* meets, every step leaves the queue's length, order and entries as they
\* were before run started.
C16_QueueReadOnly == [][queue' = queue]_vars

\* run has passed an unknown name and invoked a handler, and the queue is the
\* one it started with
C16_Witness ==
    /\ queue = <<<<"frobnicate", <<>>>>, <<"echo", <<"hello", "world">>>>,
                 <<"mkdir", <<"/a", "/b">>>>>>
    /\ calls = <<1>>
    /\ pc = "stopped"

(***************************************************************************)
(* Properties of copy and move                                             *)
(***************************************************************************)
\* the handler of queue entry i (0-based) is copy or move
FsIoEntry(i) == queue[i + 1][1] \in {"copy", "move"}

\* data[:-1] and data[-1] of queue entry i
Sources(i) == SubSeq(queue[i + 1][2], 1, Len(queue[i + 1][2]) - 1)

Destination(i) == queue[i + 1][2][Len(queue[i + 1][2])]

\* C11: for copy and for move, the precondition check returns an Err Result
\* (is_err true) when no source is given, and when more than one source is
\* given and the destination is not an existing directory.  The check of an
\* invoked entry is the one on the filesystem before the call, which is the
\* present one as long as no filesystem call was made.
C11_CheckReturnsErr ==
    \A k \in 1..Len(calls) :
        (/\ FsIoEntry(calls[k])
         /\ Len(queue[calls[k] + 1][2]) > 0
         /\ fs.ops = <<>>
         /\ fs_io_violated(Sources(calls[k]), Destination(calls[k]), fs)) =>
            LET c == fs_io_check(Sources(calls[k]), Destination(calls[k]), fs)
            IN  c.exc = "none" /\ is_err(c.obj)

\* the arguments of queue entry i violate the preconditions of copy and
\* move on filesystem f: no source, or more than one source and a
\* destination that is not an existing directory
PreconditionViolated(i, f) ==
    \/ Len(queue[i + 1][2]) <= 1
    \/ Len(queue[i + 1][2]) > 2 /\ Destination(i) \notin f.dirs

\* a step of run that invokes copy or move on violating arguments
ViolatingCall ==
    /\ pc = "run"
    /\ calls' = Append(calls, command_pointer)
    /\ FsIoEntry(command_pointer)
    /\ PreconditionViolated(command_pointer, fs)

\* C12: when copy or move is invoked with arguments that violate its
\* preconditions, the invocation fails (it is left by an exception, which
\* ends the run) and the filesystem is as before: no copy, tree copy or move
\* is made for any source.
C12_ViolationLeavesFilesystem ==
    [][ViolatingCall =>
           /\ fs'.dirs = fs.dirs
           /\ fs'.ops = fs.ops
           /\ failed' = Append(failed, command_pointer)
           /\ proc'.status \in {"raised", "exited"}
           /\ pc' = "stopped"]_vars

\* copy of /a and /b to /dst, which is no directory, was invoked and failed
\* with the filesystem untouched
C12_Witness ==
    /\ pc = "stopped"
    /\ queue = <<<<"copy", <<"/a", "/b", "/dst">>>>>>
    /\ calls = <<0>>
    /\ failed = <<0>>
    /\ "/dst" \notin fs.dirs
    /\ fs.ops = <<>>

\* the sources the filesystem calls made so far were made for, in the order
\* of the calls
OperatedSources == [j \in 1..Len(fs.ops) |-> fs.ops[j][2]]

\* C20: copy and move take their sources in argument order and stop at the
\* first source whose filesystem call fails: the sources before it have
\* been copied or moved and stay so, and no source after it is touched.
\* (fs.bad holds the paths on which the calls of the invoked handler fail.)
C20_StopsAtFirstFailingSource ==
    \A k \in 1..Len(calls) :
        (/\ FsIoEntry(calls[k])
         /\ ~PreconditionViolated(calls[k], fs)
         /\ first_bad(Sources(calls[k]), fs.bad) <= Len(Sources(calls[k]))) =>
            OperatedSources =
                SubSeq(Sources(calls[k]), 1,
                       first_bad(Sources(calls[k]), fs.bad) - 1)

====
